---------------------------- MODULE Spec2Model ----------------------------
(***************************************************************************)
(* A model of arthurbrenno/architecture:                                   *)
(*   - utils/functions.py: run_sync and fire_and_forget, the bridge        *)
(*     between synchronous callers and asyncio event loops;                *)
(*   - data/files.py: RawFile and its acquisition constructors.            *)
(* The bridge is a state machine over threads, event loops, the pool       *)
(* worker and the ambient loop's ready queue.  The acquisition             *)
(* constructors are modelled by what they compute from their inputs.       *)
(***************************************************************************)
EXTENDS Integers, Sequences, FiniteSets, TLC

\* ------------------------------------------------------------------ bounds

\* Calls made by the caller in one behaviour.
MaxCalls == 3
\* Ticks of the clock one call may last (beyond the bridge's timeout).
MaxTime == 32

\* future.result(30), functions.py line 62.
TimeoutSecs == 30

\* --------------------------------------------------------- bridge: domains

Threads == {"main", "bg", "worker"}
\* L0: the loop already running in the caller's context; L1: the loop the
\* bridge creates for the current call.
Loops == {"L0", "L1"}

NoResult == [kind |-> "none"]
ReturnNone == [kind |-> "returnNone"]
Return(v) == [kind |-> "return", val |-> v]
Raise(e) == [kind |-> "raise", exc |-> e]

\* What func(*args, **kwargs) may do: return a value or raise.
FuncOutcomes ==
    {Return(42), Return(7), Raise("ValueError"), Raise("TimeoutError"),
     Raise("RuntimeError")}

\* What the coroutine body of async_func may do once it is driven.
BodyOutcomes == {ReturnNone, Raise("ValueError"), Raise("RuntimeError")}

\* What the call async_func(*args, **kwargs) itself may do: hand back a
\* coroutine object or raise synchronously.
InvokeOutcomes == {"coroutine", "RuntimeError", "ValueError"}

VARIABLES
    ctx,        \* [thread, loop]: the caller's thread, and whether L0 runs on it
    pc,         \* the caller's position
    call,       \* the current (or last) call and its inputs
    calls,      \* calls started so far
    result,     \* what the call delivered to its caller
    pending,    \* the outcome the caller carries out of the `with` block
    driving,    \* per thread, the loops it is driving (innermost last)
    newLoop,    \* state of L1: "none", "running", "closed"
    worker,     \* the pool's worker thread: "none", "queued", "running", "finished"
    future,     \* the concurrent future the caller waits on
    readyQ,     \* tasks scheduled on L0 and not yet started
    now,        \* ticks since the call started
    execs,      \* the places (thread, loop) where this call's computation ran, in order
    invocations,\* times async_func was invoked in this call
    effects,    \* side effects performed by computations so far
    unobserved, \* failures of tasks reported by the loop's exception handler
    seen        \* failures surfaced by run_sync, each with where it arose

bridgeVars ==
    <<ctx, pc, call, calls, result, pending, driving, newLoop, worker, future,
      readyQ, now, execs, invocations, effects, unobserved, seen>>

VARIABLES
    last,       \* the last acquisition-constructor call: its inputs and outcome
    held,       \* the RawFile f the caller holds, or NoFile
    out         \* the last operation called on f: f before it and what it gave

fileVars == <<last, held, out>>

vars == <<bridgeVars, fileVars>>

\* ------------------------------------------------------- bridge: helpers

\* asyncio.get_running_loop(): the loop the calling thread is driving, or
\* "none" (the call raises RuntimeError).
GetRunningLoop(t) ==
    IF driving[t] = <<>> THEN "none" ELSE driving[t][Len(driving[t])]

\* A caller that takes every thread but the primary one for the primary.
OnMainThreadInverted(t) == t # "main"

\* threading.current_thread() is threading.main_thread()
OnMainThread(t) == t = "main"

\* The test of line 48 without its `not`.
IsRunningNegated(l) == ~\E t \in Threads : \E i \in 1..Len(driving[t]) : driving[t][i] = l

\* loop.is_running()
IsRunning(l) == \E t \in Threads : \E i \in 1..Len(driving[t]) : driving[t][i] = l

\* loop.run_until_complete(...) / the loop's run_forever on thread t.
Drive(t, l) == [driving EXCEPT ![t] = Append(@, l)]

\* The loop stops being driven by thread t.
Undrive(t) == [driving EXCEPT ![t] = SubSeq(@, 1, Len(@) - 1)]

\* asyncio.run refuses to start while the calling thread drives a loop.
AsyncioRunRefuses(t) == GetRunningLoop(t) # "none"

\* Whether the caller's code is between bridge calls (the loop it runs on
\* gets control back only then).
CallerFree == pc \in {"idle", "done"}

Observe(r, origin) ==
    IF r.kind = "raise" THEN seen \cup {<<r.exc, origin>>} ELSE seen

\* ----------------------------------------------------------------- Init

Init ==
    /\ ctx \in [thread : {"main", "bg"}, loop : BOOLEAN]
    /\ pc = "idle"
    /\ call = [op |-> "none"]
    /\ calls = 0
    /\ result = NoResult
    /\ pending = [obs |-> NoResult, origin |-> "none"]
    /\ driving = [t \in Threads |->
                    IF t = ctx.thread /\ ctx.loop THEN <<"L0">> ELSE <<>>]
    /\ newLoop = "none"
    /\ worker = "none"
    /\ future = NoResult
    /\ readyQ = <<>>
    /\ now = 0
    /\ execs = <<>>
    /\ invocations = 0
    /\ effects = 0
    /\ unobserved = {}
    /\ seen = {}
    /\ last = [ctor |-> "none"]
    /\ held = [kind |-> "nofile"]
    /\ out = [op |-> "none"]

\* What every new call starts from.
BeginCall(c) ==
    /\ CallerFree
    /\ calls < MaxCalls
    /\ call' = c
    /\ calls' = calls + 1
    /\ result' = NoResult
    /\ pending' = [obs |-> NoResult, origin |-> "none"]
    /\ newLoop' = "none"
    /\ worker' = "none"
    /\ future' = NoResult
    /\ now' = 0
    /\ execs' = <<>>
    /\ invocations' = 0
    /\ UNCHANGED <<ctx, driving, readyQ, effects, unobserved, seen>>
    /\ UNCHANGED fileVars

\* ------------------------------------------------------------- run_sync

\* _async_wrapper without its `return`: whatever func returns, None comes out.
AsyncWrapperNoReturn(f) == IF f.kind = "return" THEN ReturnNone ELSE f

\* _async_wrapper (lines 39-40): the coroutine's outcome is func's.
AsyncWrapper(f) == f

\* The caller calls run_sync(func): func will behave as f.
CallRunSync ==
    \E f \in FuncOutcomes :
        /\ BeginCall([op |-> "run_sync", func |-> f, id |-> calls + 1])
        /\ pc' = "rs_entry"

\* Lines 42-64: find the running loop and choose how to run _async_wrapper.
RunSyncDispatch ==
    /\ pc = "rs_entry"
    /\ LET t == ctx.thread
           loop == GetRunningLoop(t)
       IN  IF loop = "none"
           THEN \* asyncio.run(_async_wrapper()): a new loop on this thread
                /\ driving' = Drive(t, "L1")
                /\ newLoop' = "running"
                /\ execs' = Append(execs, [thread |-> t, loop |-> "L1"])
                /\ pc' = "rs_run"
                /\ UNCHANGED <<worker, readyQ>>
           ELSE IF OnMainThread(t)
           THEN IF ~IsRunning(loop)
                THEN \* loop.run_until_complete(_async_wrapper())
                     /\ driving' = Drive(t, loop)
                     /\ execs' = Append(execs, [thread |-> t, loop |-> loop])
                     /\ pc' = "rs_run"
                     /\ UNCHANGED <<newLoop, worker, readyQ>>
                ELSE \* pool.submit(run_in_new_loop); future.result(30)
                     /\ worker' = "queued"
                     /\ pc' = "rs_wait"
                     /\ UNCHANGED <<driving, newLoop, execs, readyQ>>
           ELSE \* asyncio.run_coroutine_threadsafe(_async_wrapper(), loop).result()
                /\ readyQ' = Append(readyQ, [kind |-> "wrapper", id |-> call.id,
                                             does |-> call.func])
                /\ pc' = "rs_ts_wait"
                /\ UNCHANGED <<driving, newLoop, execs, worker>>
    /\ UNCHANGED <<ctx, call, calls, result, pending, future, now, invocations,
                   effects, unobserved, seen>>
    /\ UNCHANGED fileVars

\* asyncio.run / run_until_complete on the caller's thread finishes: the
\* loop is closed and func's outcome is the call's outcome.
RunSyncFinish ==
    /\ pc = "rs_run"
    /\ driving' = Undrive(ctx.thread)
    /\ newLoop' = IF newLoop = "running" THEN "closed" ELSE newLoop
    /\ result' = AsyncWrapper(call.func)
    /\ seen' = Observe(AsyncWrapper(call.func), "func")
    /\ pc' = "done"
    /\ UNCHANGED <<ctx, call, calls, pending, worker, future, readyQ, now,
                   execs, invocations, effects, unobserved>>
    /\ UNCHANGED fileVars

\* run_in_new_loop starts on the pool's worker thread (lines 52-56).
WorkerStart ==
    /\ worker = "queued"
    /\ worker' = "running"
    /\ newLoop' = "running"
    /\ driving' = Drive("worker", "L1")
    /\ execs' = Append(execs, [thread |-> "worker", loop |-> "L1"])
    /\ UNCHANGED <<ctx, pc, call, calls, result, pending, future, readyQ, now,
                   invocations, effects, unobserved, seen>>
    /\ UNCHANGED fileVars

\* run_in_new_loop ends (lines 56-58): the loop is closed, the future is set.
WorkerFinish ==
    /\ worker = "running"
    /\ worker' = "finished"
    /\ newLoop' = "closed"
    /\ driving' = Undrive("worker")
    /\ future' = AsyncWrapper(call.func)
    /\ UNCHANGED <<ctx, pc, call, calls, result, pending, readyQ, now, execs,
                   invocations, effects, unobserved, seen>>
    /\ UNCHANGED fileVars

\* Time passes while func runs on the worker.  future.result(30) wakes when
\* its 30 units are over.
Tick ==
    /\ worker = "running"
    /\ now < MaxTime
    /\ ~(pc = "rs_wait" /\ future = NoResult /\ now >= TimeoutSecs)
    /\ now' = now + 1
    /\ UNCHANGED <<ctx, pc, call, calls, result, pending, driving, newLoop,
                   worker, future, readyQ, execs, invocations, effects,
                   unobserved, seen>>
    /\ UNCHANGED fileVars

\* Whether the `with ThreadPoolExecutor()` block is still to be left.
InPool == pc = "rs_wait"

\* future.result(...) hands over the finished work's outcome (lines 62, 64).
FutureResult ==
    /\ pc \in {"rs_wait", "rs_ts_wait"}
    /\ future # NoResult
    /\ IF InPool
       THEN /\ pending' = [obs |-> future, origin |-> "func"]
            /\ pc' = "rs_shutdown"
            /\ UNCHANGED <<result, seen>>
       ELSE /\ result' = future
            /\ seen' = Observe(future, "func")
            /\ pc' = "done"
            /\ UNCHANGED pending
    /\ UNCHANGED <<ctx, call, calls, driving, newLoop, worker, future, readyQ,
                   now, execs, invocations, effects, unobserved>>
    /\ UNCHANGED fileVars

\* future.result(30) gives up (line 62).
FutureTimeout ==
    /\ pc = "rs_wait"
    /\ future = NoResult
    /\ now >= TimeoutSecs
    /\ pending' = [obs |-> Raise("TimeoutError"), origin |-> "bridge"]
    /\ pc' = "rs_shutdown"
    /\ UNCHANGED <<ctx, call, calls, result, driving, newLoop, worker, future,
                   readyQ, now, execs, invocations, effects, unobserved, seen>>
    /\ UNCHANGED fileVars

\* Whether leaving the `with` block may proceed: ThreadPoolExecutor.__exit__
\* is shutdown(wait=True), which joins the worker (line 60).
PoolExitReady == worker = "finished"

PoolShutdown ==
    /\ pc = "rs_shutdown"
    /\ PoolExitReady
    /\ result' = pending.obs
    /\ seen' = Observe(pending.obs, pending.origin)
    /\ pc' = "done"
    /\ UNCHANGED <<ctx, call, calls, pending, driving, newLoop, worker, future,
                   readyQ, now, execs, invocations, effects, unobserved>>
    /\ UNCHANGED fileVars

\* ------------------------------------------------------ fire_and_forget

\* The caller calls fire_and_forget(async_func): invoking async_func does
\* inv, the coroutine's body does b, and loop.create_task raises or not.
CallFireAndForget ==
    \E b \in BodyOutcomes, inv \in InvokeOutcomes, ctRaises \in BOOLEAN :
        /\ BeginCall([op |-> "fire_and_forget", body |-> b, invoke |-> inv,
                      createTaskRaises |-> ctRaises, id |-> calls + 1,
                      before |-> effects])
        /\ pc' = "faf_entry"

\* A create_task that forgets the task.
CreateTaskDropped(q, task) == q

\* loop.create_task(coro): the task is queued; its body runs when the loop
\* next gets control.
CreateTask(q, task) == Append(q, task)

\* Lines 82-85: the try block.
FireAndForgetTry ==
    /\ pc = "faf_entry"
    /\ LET loop == GetRunningLoop(ctx.thread)
       IN  IF loop = "none"
           THEN \* get_running_loop raised RuntimeError
                /\ pc' = "faf_except"
                /\ UNCHANGED <<invocations, readyQ, result>>
           ELSE /\ invocations' = invocations + 1
                /\ IF call.invoke = "RuntimeError"
                   THEN /\ pc' = "faf_except"
                        /\ UNCHANGED <<readyQ, result>>
                   ELSE IF call.invoke # "coroutine"
                   THEN /\ result' = Raise(call.invoke)
                        /\ pc' = "done"
                        /\ UNCHANGED readyQ
                   ELSE IF call.createTaskRaises
                   THEN /\ pc' = "faf_except"
                        /\ UNCHANGED <<readyQ, result>>
                   ELSE /\ readyQ' = CreateTask(readyQ,
                                [kind |-> "task", id |-> call.id, does |-> call.body])
                        /\ result' = ReturnNone
                        /\ pc' = "done"
    /\ UNCHANGED <<ctx, call, calls, pending, driving, newLoop, worker, future,
                   now, execs, effects, unobserved, seen>>
    /\ UNCHANGED fileVars

\* Lines 86-88: the except RuntimeError block, asyncio.run(async_func(...)).
FireAndForgetExcept ==
    /\ pc = "faf_except"
    /\ invocations' = invocations + 1
    /\ IF call.invoke # "coroutine"
       THEN /\ result' = Raise(call.invoke)
            /\ pc' = "done"
            /\ UNCHANGED <<driving, newLoop, execs, effects>>
       ELSE IF AsyncioRunRefuses(ctx.thread)
       THEN /\ result' = Raise("RuntimeError")
            /\ pc' = "done"
            /\ UNCHANGED <<driving, newLoop, execs, effects>>
       ELSE /\ driving' = Drive(ctx.thread, "L1")
            /\ newLoop' = "running"
            /\ execs' = Append(execs, [thread |-> ctx.thread, loop |-> "L1"])
            /\ effects' = effects + 1
            /\ pc' = "faf_run"
            /\ UNCHANGED result
    /\ UNCHANGED <<ctx, call, calls, pending, worker, future, readyQ, now,
                   unobserved, seen>>
    /\ UNCHANGED fileVars

\* An asyncio.run that leaves its loop running.
LoopLeftRunning == "running"

\* The state asyncio.run leaves its loop in when it returns.
LoopAfterRun == "closed"

\* asyncio.run returns (line 88): its loop is torn down, and the body's
\* outcome is the call's.
FireAndForgetFinish ==
    /\ pc = "faf_run"
    /\ driving' = IF LoopAfterRun = "closed" THEN Undrive(ctx.thread) ELSE driving
    /\ newLoop' = LoopAfterRun
    /\ result' = call.body
    /\ pc' = "done"
    /\ UNCHANGED <<ctx, call, calls, pending, worker, future, readyQ, now,
                   execs, invocations, effects, unobserved, seen>>
    /\ UNCHANGED fileVars

\* ------------------------------------------------------ the ambient loop

\* L0 runs the next ready task.  It can only do so when the thread that
\* drives it is not inside a (synchronous) bridge call.
LoopStep ==
    /\ ctx.loop
    /\ CallerFree
    /\ readyQ # <<>>
    /\ LET task == Head(readyQ)
       IN  /\ readyQ' = Tail(readyQ)
           /\ IF task.kind = "wrapper"
              THEN /\ future' = AsyncWrapper(task.does)
                   /\ execs' = Append(execs, [thread |-> ctx.thread, loop |-> "L0"])
                   /\ UNCHANGED <<effects, unobserved>>
              ELSE /\ effects' = effects + 1
                   /\ unobserved' = IF task.does.kind = "raise"
                                    THEN unobserved \cup {task.does.exc}
                                    ELSE unobserved
                   /\ UNCHANGED <<future, execs>>
    /\ UNCHANGED <<ctx, pc, call, calls, result, pending, driving, newLoop,
                   worker, now, invocations, seen>>
    /\ UNCHANGED fileVars

NextBridge ==
    \/ CallRunSync
    \/ RunSyncDispatch
    \/ RunSyncFinish
    \/ WorkerStart
    \/ WorkerFinish
    \/ Tick
    \/ FutureResult
    \/ FutureTimeout
    \/ PoolShutdown
    \/ CallFireAndForget
    \/ FireAndForgetTry
    \/ FireAndForgetExcept
    \/ FireAndForgetFinish
    \/ LoopStep

BridgeSpec == Init /\ [][NextBridge]_vars

\* The threads are scheduled and the steps of a call that are ready are
\* taken; no fairness is asked of the clock or of the caller starting calls.
FairBridgeSpec ==
    /\ BridgeSpec
    /\ WF_vars(RunSyncDispatch)
    /\ WF_vars(RunSyncFinish)
    /\ WF_vars(WorkerStart)
    /\ WF_vars(WorkerFinish)
    /\ WF_vars(FutureResult)
    /\ WF_vars(FutureTimeout)
    /\ WF_vars(PoolShutdown)
    /\ WF_vars(FireAndForgetTry)
    /\ WF_vars(FireAndForgetExcept)
    /\ WF_vars(FireAndForgetFinish)
    /\ WF_vars(LoopStep)

\* ------------------------------------------------------- bridge: claims

\* The three caller contexts.
NoLoopCtx == ~ctx.loop
PrimaryLoopCtx == ctx.loop /\ ctx.thread = "main"
NonPrimaryLoopCtx == ctx.loop /\ ctx.thread = "bg"

RunSyncCall == call.op = "run_sync"
FafCall == call.op = "fire_and_forget"

C1_State ==
    (RunSyncCall /\ PrimaryLoopCtx) =>
        /\ \A i \in 1..Len(execs) : execs[i] = [thread |-> "worker", loop |-> "L1"]
        /\ Len(execs) <= 1
        /\ driving["main"] = <<"L0">>
        /\ (pc = "done" => Len(execs) = 1)
        /\ (pc = "done" /\ now < TimeoutSecs) => result = call.func

\* C1: run_sync called on the primary thread while a loop runs there executes
\* func on the worker thread under the newly created loop L1 (never on the
\* caller's loop L0), returns func's outcome when func ends within the
\* bound, and every such call returns.
C1_WorkerThreadResult ==
    /\ []C1_State
    /\ ((RunSyncCall /\ PrimaryLoopCtx /\ pc = "rs_entry") ~> (pc = "done"))

\* A call on the primary thread under a running loop returned func's 42,
\* computed on the worker thread under L1.
C1_Witness ==
    /\ RunSyncCall /\ PrimaryLoopCtx /\ pc = "done"
    /\ call.func = Return(42) /\ result = Return(42)
    /\ execs = <<[thread |-> "worker", loop |-> "L1"]>>

\* C2 (as claimed): on the worker-thread path the caller is blocked inside
\* run_sync for at most 30 time units.
C2_BoundedWait ==
    (RunSyncCall /\ pc \in {"rs_wait", "rs_shutdown"}) => now <= TimeoutSecs

\* C3 (as claimed): a run_sync call on a non-primary thread that drives a loop
\* is never stuck: while it waits, the submitted computation has completed
\* or the system can still take a step.
C3_NonPrimaryReturns ==
    (RunSyncCall /\ NonPrimaryLoopCtx /\ pc = "rs_ts_wait") =>
        (future # NoResult \/ ENABLED NextBridge)

\* C4: no thread ever drives two loops at once (a new loop started under a
\* running one, or a running loop run again), and no loop is driven by two
\* threads.
C4_NoDoubleDrive ==
    /\ \A t \in Threads : Len(driving[t]) <= 1
    /\ \A l \in Loops :
          Cardinality({t \in Threads : \E i \in 1..Len(driving[t]) : driving[t][i] = l}) <= 1

\* fire_and_forget under a running loop fell into its except branch with a
\* coroutine in hand, and asyncio.run refused: no second loop was started.
C4_Witness ==
    /\ FafCall /\ ctx.loop /\ pc = "done"
    /\ call.invoke = "coroutine" /\ invocations = 2
    /\ result = Raise("RuntimeError")
    /\ driving[ctx.thread] = <<"L0">>

\* C5 (as claimed): a failure of func reaches run_sync's caller unchanged, and
\* no failure the caller sees can have come both from the bridge (its timeout)
\* and from func.
C5_FailureUnchangedDistinct ==
    /\ (RunSyncCall /\ pc = "done" /\ call.func.kind = "raise"
            /\ pending.origin # "bridge") => result = call.func
    /\ \A p \in seen, q \in seen : p[1] = q[1] => p[2] = q[2]

\* The fire_and_forget calls whose try block schedules a task.
FafSchedules ==
    FafCall /\ ctx.loop /\ call.invoke = "coroutine" /\ ~call.createTaskRaises

C6_State ==
    (FafSchedules /\ pc = "done") => result = ReturnNone

C6_Step ==
    (FafSchedules /\ pc = "faf_entry") =>
        /\ pc' = "done"
        /\ result' = ReturnNone
        /\ readyQ' = Append(readyQ, [kind |-> "task", id |-> call.id, does |-> call.body])
        /\ effects' = effects
        /\ unobserved' = unobserved

\* C6: under a running loop fire_and_forget returns None in one step that
\* only appends the task to the loop's queue: the body has not started when
\* the call returns, and whatever the body later raises, the call's outcome
\* stays a normal return.
C6_ScheduleAndReturn == []C6_State /\ [][C6_Step]_vars

\* The scheduled body ran after the call returned and raised; the failure
\* went to the loop's handler and the caller still has its normal return.
C6_Witness ==
    /\ FafSchedules /\ pc = "done"
    /\ call.body = Raise("ValueError")
    /\ \A i \in 1..Len(readyQ) : readyQ[i].id # call.id
    /\ "ValueError" \in unobserved
    /\ result = ReturnNone

\* C7: when fire_and_forget is called with no running loop and has returned
\* or raised the body's outcome, the body has run exactly once on a loop
\* created on the calling thread, its side effect is done, and that loop is
\* closed and no longer driven.
C7_NoLoopRunsToCompletion ==
    (FafCall /\ NoLoopCtx /\ call.invoke = "coroutine" /\ pc = "done") =>
        /\ effects = call.before + 1
        /\ execs = <<[thread |-> ctx.thread, loop |-> "L1"]>>
        /\ result = call.body
        /\ newLoop = "closed"
        /\ \A t \in Threads : driving[t] = <<>>

C7_Witness ==
    /\ FafCall /\ NoLoopCtx /\ pc = "done"
    /\ call.invoke = "coroutine" /\ call.body = ReturnNone
    /\ result = ReturnNone
    /\ effects = call.before + 1
    /\ newLoop = "closed"

\* C8: when run_sync is called with no running loop and has returned, func
\* has run exactly once, on a loop created on the calling thread, the call's
\* outcome is func's, and that loop is closed and no longer driven.
C8_NoLoopRunsOnce ==
    (RunSyncCall /\ NoLoopCtx /\ pc = "done") =>
        /\ execs = <<[thread |-> ctx.thread, loop |-> "L1"]>>
        /\ result = call.func
        /\ newLoop = "closed"
        /\ \A t \in Threads : driving[t] = <<>>

C8_Witness ==
    /\ RunSyncCall /\ NoLoopCtx /\ pc = "done"
    /\ call.func = Return(7) /\ result = Return(7)
    /\ Len(execs) = 1 /\ newLoop = "closed"


\* C14 (as claimed): a fire_and_forget call invokes async_func once, runs
\* or schedules at most one computation, and is in its except branch only
\* when the calling thread drives no loop.
C14_InvokedOnce ==
    FafCall =>
        /\ invocations <= 1
        /\ (pc = "done" => invocations = 1)
        /\ Len(execs) + Cardinality({i \in 1..Len(readyQ) : readyQ[i].id = call.id}) <= 1
        /\ (pc = "faf_except" => GetRunningLoop(ctx.thread) = "none")

\* ---------------------------------------------------------- files: strings

\* A string is the sequence of its characters.
LowerLetters ==
    <<"a", "b", "c", "d", "e", "f", "g", "h", "i", "j", "k", "l", "m",
      "n", "o", "p", "q", "r", "s", "t", "u", "v", "w", "x", "y", "z">>
UpperLetters ==
    <<"A", "B", "C", "D", "E", "F", "G", "H", "I", "J", "K", "L", "M",
      "N", "O", "P", "Q", "R", "S", "T", "U", "V", "W", "X", "Y", "Z">>

UpperChar(c) ==
    IF \E i \in 1..Len(LowerLetters) : LowerLetters[i] = c
    THEN UpperLetters[CHOOSE i \in 1..Len(LowerLetters) : LowerLetters[i] = c]
    ELSE c

\* str.upper()
Upper(s) == [i \in 1..Len(s) |-> UpperChar(s[i])]

\* str.rfind(c) + 1: the last position of c in s, 0 when there is none.
RFind(s, c) ==
    IF \E i \in 1..Len(s) : s[i] = c
    THEN CHOOSE i \in 1..Len(s) : s[i] = c /\ \A j \in (i + 1)..Len(s) : s[j] # c
    ELSE 0

\* str.lstrip(c)
RECURSIVE LStrip(_, _)
LStrip(s, c) == IF s # <<>> /\ Head(s) = c THEN LStrip(Tail(s), c) ELSE s

\* PurePath.name: the final component of the path.
PathName(p) == SubSeq(p, RFind(p, "/") + 1, Len(p))

\* PurePath.suffix: the final component's last dot and what follows it, when
\* that dot is neither the name's first nor its last character.
PathSuffix(p) ==
    LET name == PathName(p)
        i == RFind(name, ".")
    IN  IF 1 < i /\ i < Len(name) THEN SubSeq(name, i, Len(name)) ELSE <<>>

\* Path(p).suffix.lstrip(".")
SuffixOf(p) == LStrip(PathSuffix(p), ".")

\* ------------------------------------------------------- files: the enum

\* FileExtension (lines 96-104): member names.
FileExtension == {"PDF", "JSON", "PNG", "JPEG", "JPG", "HTML", "TXT", "MD"}

None == "None"

\* FileExtension.__members__: each member's name, as a string.
MemberName(e) ==
    CASE e = "PDF" -> <<"P", "D", "F">>
      [] e = "JSON" -> <<"J", "S", "O", "N">>
      [] e = "PNG" -> <<"P", "N", "G">>
      [] e = "JPEG" -> <<"J", "P", "E", "G">>
      [] e = "JPG" -> <<"J", "P", "G">>
      [] e = "HTML" -> <<"H", "T", "M", "L">>
      [] e = "TXT" -> <<"T", "X", "T">>
      [] e = "MD" -> <<"M", "D">>

\* Each member's value.
MemberValue(e) ==
    CASE e = "PDF" -> <<"p", "d", "f">>
      [] e = "JSON" -> <<"j", "s", "o", "n">>
      [] e = "PNG" -> <<"p", "n", "g">>
      [] e = "JPEG" -> <<"j", "p", "e", "g">>
      [] e = "JPG" -> <<"j", "p", "g">>
      [] e = "HTML" -> <<"h", "t", "m", "l">>
      [] e = "TXT" -> <<"t", "x", "t">>
      [] e = "MD" -> <<"m", "d">>

\* FileExtension(value): the member with that value; None stands for the
\* ValueError the lookup raises.
ExtensionByValue(v) ==
    IF \E e \in FileExtension : MemberValue(e) = v
    THEN CHOOSE e \in FileExtension : MemberValue(e) = v
    ELSE None

\* FileExtension[ext.upper()] if ext.upper() in FileExtension.__members__
ExtensionByName(ext) ==
    IF \E e \in FileExtension : MemberName(e) = Upper(ext)
    THEN CHOOSE e \in FileExtension : MemberName(e) = Upper(ext)
    ELSE None

\* A content type is a string of pieces; ";" is a piece of its own.
\* str.split(";")[0]: what precedes the first ";".
RECURSIVE SplitFirst(_)
SplitFirst(h) ==
    IF h = <<>> \/ Head(h) = ";" THEN <<>> ELSE <<Head(h)>> \o SplitFirst(Tail(h))

\* A default added to the map's lookup.
GetExtensionOrHtml(ct) ==
    CASE ct = <<"application/pdf">> -> "PDF"
      [] ct = <<"application/json">> -> "JSON"
      [] ct = <<"image/png">> -> "PNG"
      [] ct = <<"image/jpeg">> -> "JPEG"
      [] ct = <<"image/jpg">> -> "JPG"
      [] ct = <<"text/html">> -> "HTML"
      [] ct = <<"text/plain">> -> "TXT"
      [] OTHER -> "HTML"

\* RawFile._get_extension_from_content_type (lines 616-628).
GetExtensionFromContentType(ct) ==
    CASE ct = <<"application/pdf">> -> "PDF"
      [] ct = <<"application/json">> -> "JSON"
      [] ct = <<"image/png">> -> "PNG"
      [] ct = <<"image/jpeg">> -> "JPEG"
      [] ct = <<"image/jpg">> -> "JPG"
      [] ct = <<"text/html">> -> "HTML"
      [] ct = <<"text/plain">> -> "TXT"
      [] OTHER -> None

\* ------------------------------------------------------- files: inputs

\* File paths, object keys, blob names, archive members.
Paths ==
    { <<"a", ".", "t", "x", "t">>,
      <<"a", ".", "T", "X", "T">>,
      <<"a", ".", "p", "d", "f">>,
      <<"a", ".", "x", "m", "l">>,
      <<"d", ".", "m", "d", "/", "a">>,
      <<".", "t", "x", "t">>,
      <<"a", ".">>,
      <<"a", ".", "j", "s", ".", "j", "s", "o", "n">> }

\* Declared content types: a Content-Type header's value, or the type an
\* object store reports.  <<>> is the empty string (no header, no ContentType).
ContentTypes ==
    { <<>>,
      <<"application/xml">>,
      <<"application/xml", ";", " charset=utf-8">>,
      <<"application/pdf">>,
      <<"text/plain", ";", " charset=utf-8">>,
      <<"text/html">>,
      <<"image/jpeg", " ", ";">> }

\* Byte strings a source may hold.
Datas == {<<>>, <<72, 105>>}

\* Optional[FileExtension]
OptionalExtension == FileExtension \cup {None}

\* `not extension`
Falsy(e) == e = None

RawFile(c, e) == [kind |-> "file", contents |-> c, extension |-> e]

\* A construction that does not stop at a failed lookup.
FromSuffixUnchecked(data, path) == RawFile(data, ExtensionByValue(SuffixOf(path)))

\* cls(contents=data, extension=FileExtension(suffix)): the lookup's
\* ValueError, or the value.
FromSuffix(data, path) ==
    IF ExtensionByValue(SuffixOf(path)) = None
    THEN Raise("ValueError")
    ELSE RawFile(data, ExtensionByValue(SuffixOf(path)))

\* The caller holds no RawFile.
NoFile == [kind |-> "nofile"]

\* No operation has been called on f since the caller took hold of it.
NoOp == [op |-> "none"]

\* Whether a constructor can start a call.
Ready == last.ctor = "none" /\ held = NoFile

\* ------------------------------------------------- files: constructors

\* from_file_path (lines 259-274).  The method takes file_path only: a call
\* that passes an extension does not bind.
from_file_path ==
    /\ Ready
    /\ \E path \in Paths, ext \in OptionalExtension, exists \in BOOLEAN,
       isFile \in BOOLEAN, data \in Datas :
        /\ exists \/ ~isFile
        /\ last' = [ctor |-> "from_file_path", path |-> path, extension |-> ext,
                    exists |-> exists, isFile |-> isFile, data |-> data,
                    result |->
                        IF ext # None THEN Raise("TypeError")
                        ELSE IF ~exists THEN Raise("FileNotFoundError")
                        ELSE IF ~isFile THEN Raise("ValueError")
                        ELSE FromSuffix(data, path)]
        /\ UNCHANGED <<bridgeVars, held, out>>

\* from_bytes (lines 276-278).
from_bytes ==
    /\ Ready
    /\ \E ext \in FileExtension, data \in Datas :
        /\ last' = [ctor |-> "from_bytes", extension |-> ext, data |-> data,
                    result |-> RawFile(data, ext)]
        /\ UNCHANGED <<bridgeVars, held, out>>

\* An `or` chain that asks the response before the caller.
UrlExtensionHeaderFirst(ext, header) ==
    IF ~Falsy(GetExtensionFromContentType(SplitFirst(header)))
    THEN GetExtensionFromContentType(SplitFirst(header))
    ELSE IF ~Falsy(ext) THEN ext
    ELSE "HTML"

\* Lines 393-398: extension or (map(header.split(";")[0]) or HTML).
UrlExtension(ext, header) ==
    IF ~Falsy(ext) THEN ext
    ELSE IF ~Falsy(GetExtensionFromContentType(SplitFirst(header)))
    THEN GetExtensionFromContentType(SplitFirst(header))
    ELSE "HTML"

\* validators.url(url), line 367: the call hands back its verdict (True, or
\* a failure object) and the statement drops it; nothing is raised, whatever
\* the verdict.
UrlValidationRaises(urlValid) == FALSE

\* from_url (lines 346-400).  requests.get is called whatever the validator
\* found: it raises when it cannot build a request from the URL (prepared is
\* false: nothing is sent), or when the request it sent fails.  A URL the
\* validator accepts can be prepared; one it rejects may still be.
from_url ==
    /\ Ready
    /\ \E urlValid \in BOOLEAN, prepared \in BOOLEAN, responds \in BOOLEAN,
       ext \in OptionalExtension, header \in ContentTypes, data \in Datas :
        /\ urlValid => prepared
        /\ responds => prepared
        /\ last' = [ctor |-> "from_url", urlValid |-> urlValid, extension |-> ext,
                    available |-> responds, declared |-> header, data |-> data,
                    getIssued |-> ~UrlValidationRaises(urlValid) /\ prepared,
                    failedIn |->
                        IF UrlValidationRaises(urlValid) THEN "validators.url"
                        ELSE IF ~responds THEN "requests.get"
                        ELSE "none",
                    result |->
                        IF UrlValidationRaises(urlValid) THEN Raise("ValidationError")
                        ELSE IF ~prepared THEN Raise("InvalidURL")
                        ELSE IF ~responds THEN Raise("RequestException")
                        ELSE RawFile(data, UrlExtension(ext, header))]
        /\ UNCHANGED <<bridgeVars, held, out>>

\* The tag an object-store constructor settles on (lines 422-434, 467-484,
\* 510-522): the explicit one, else the key's suffix by member name, else
\* the reported content type through the map; None when nothing resolves.
StoreExtension(ext, key, ct) ==
    IF ~Falsy(ext) THEN ext
    ELSE IF ExtensionByName(SuffixOf(key)) # None
    THEN ExtensionByName(SuffixOf(key))
    ELSE GetExtensionFromContentType(ct)

\* Whether the constructor asks the store for the object's content type.
AsksStore(ext, key) == Falsy(ext) /\ ExtensionByName(SuffixOf(key)) = None

\* from_s3, from_azure_blob and from_gcs share their shape: the SDK must be
\* importable, the tag is resolved (asking the store only when needed), and
\* the object is then downloaded.  ctSet: whether the store reports a content
\* type at all (S3 defaults a missing one to "", Azure raises at once on
\* None, GCS hands None to the map).
StoreResult(sdk, up, ext, key, ctSet, ct, data) ==
    IF ~sdk THEN Raise("ImportError")
    ELSE IF AsksStore(ext, key) /\ ~up THEN Raise("ProviderError")
    ELSE IF AsksStore(ext, key) /\ ~ctSet THEN Raise("ValueError")
    ELSE IF Falsy(StoreExtension(ext, key, ct)) THEN Raise("ValueError")
    ELSE IF ~up THEN Raise("ProviderError")
    ELSE RawFile(data, StoreExtension(ext, key, ct))

\* from_s3 (lines 402-439).
from_s3 ==
    /\ Ready
    /\ \E sdk \in BOOLEAN, up \in BOOLEAN, ext \in OptionalExtension,
       key \in Paths, ctSet \in BOOLEAN, ct \in ContentTypes, data \in Datas :
        /\ ~ctSet => ct = <<>>
        /\ last' = [ctor |-> "from_s3", sdk |-> sdk, available |-> up,
                    extension |-> ext, path |-> key, declaredSet |-> ctSet,
                    declared |-> ct, data |-> data,
                    result |-> StoreResult(sdk, up, ext, key, ctSet, ct, data)]
        /\ UNCHANGED <<bridgeVars, held, out>>

\* from_azure_blob (lines 441-489).
from_azure_blob ==
    /\ Ready
    /\ \E sdk \in BOOLEAN, up \in BOOLEAN, ext \in OptionalExtension,
       key \in Paths, ctSet \in BOOLEAN, ct \in ContentTypes, data \in Datas :
        /\ ~ctSet => ct = <<>>
        /\ last' = [ctor |-> "from_azure_blob", sdk |-> sdk, available |-> up,
                    extension |-> ext, path |-> key, declaredSet |-> ctSet,
                    declared |-> ct, data |-> data,
                    result |-> StoreResult(sdk, up, ext, key, ctSet, ct, data)]
        /\ UNCHANGED <<bridgeVars, held, out>>

\* from_gcs (lines 491-526).
from_gcs ==
    /\ Ready
    /\ \E sdk \in BOOLEAN, up \in BOOLEAN, ext \in OptionalExtension,
       key \in Paths, ctSet \in BOOLEAN, ct \in ContentTypes, data \in Datas :
        /\ ~ctSet => ct = <<>>
        /\ last' = [ctor |-> "from_gcs", sdk |-> sdk, available |-> up,
                    extension |-> ext, path |-> key, declaredSet |-> ctSet,
                    declared |-> ct, data |-> data,
                    result |-> StoreResult(sdk, up, ext, key, ctSet, ct, data)]
        /\ UNCHANGED <<bridgeVars, held, out>>

\* Lines 538-540 and 567-569: the explicit tag, else the path's suffix
\* looked up by value.
ExplicitOrSuffix(ext, data, path) ==
    IF ~Falsy(ext) THEN RawFile(data, ext) ELSE FromSuffix(data, path)

\* from_zip (lines 528-540).
from_zip ==
    /\ Ready
    /\ \E readable \in BOOLEAN, ext \in OptionalExtension, inner \in Paths,
       data \in Datas :
        /\ last' = [ctor |-> "from_zip", available |-> readable,
                    extension |-> ext, path |-> inner, data |-> data,
                    result |->
                        IF ~readable THEN Raise("ArchiveError")
                        ELSE ExplicitOrSuffix(ext, data, inner)]
        /\ UNCHANGED <<bridgeVars, held, out>>

\* from_ftp (lines 551-569).
from_ftp ==
    /\ Ready
    /\ \E up \in BOOLEAN, ext \in OptionalExtension, filepath \in Paths,
       data \in Datas :
        /\ last' = [ctor |-> "from_ftp", available |-> up,
                    extension |-> ext, path |-> filepath, data |-> data,
                    result |->
                        IF ~up THEN Raise("FtpError")
                        ELSE ExplicitOrSuffix(ext, data, filepath)]
        /\ UNCHANGED <<bridgeVars, held, out>>

\* ------------------------------------- files: decoding constructors

\* The base64 alphabet (RFC 4648), in the order of its 6-bit values.
B64Alphabet ==
    << "A", "B", "C", "D", "E", "F", "G", "H", "I", "J", "K", "L", "M",
       "N", "O", "P", "Q", "R", "S", "T", "U", "V", "W", "X", "Y", "Z",
       "a", "b", "c", "d", "e", "f", "g", "h", "i", "j", "k", "l", "m",
       "n", "o", "p", "q", "r", "s", "t", "u", "v", "w", "x", "y", "z",
       "0", "1", "2", "3", "4", "5", "6", "7", "8", "9", "+", "/" >>

IsB64Digit(c) == \E i \in DOMAIN B64Alphabet : B64Alphabet[i] = c

B64Value(c) == (CHOOSE i \in DOMAIN B64Alphabet : B64Alphabet[i] = c) - 1

\* The bytes of one group of two to four digits.
B64Group(q) ==
    LET v(i) == IF i <= Len(q) THEN B64Value(q[i]) ELSE 0
        n == v(1) * 262144 + v(2) * 4096 + v(3) * 64 + v(4)
    IN  SubSeq(<<n \div 65536, (n \div 256) % 256, n % 256>>, 1, Len(q) - 1)

RECURSIVE B64Bytes(_)
B64Bytes(d) ==
    IF d = <<>> THEN <<>>
    ELSE IF Len(d) <= 4 THEN B64Group(d)
    ELSE B64Group(SubSeq(d, 1, 4)) \o B64Bytes(SubSeq(d, 5, Len(d)))

\* base64.b64decode(b64_string) as line 282 calls it (validate=False):
\* characters outside the alphabet are discarded, and a last group that is
\* one digit long or short of padding raises binascii.Error.
B64Decode(s) ==
    LET d == SelectSeq(s, IsB64Digit)
        pads == Len(SelectSeq(s, LAMBDA c : c = "="))
        r == Len(d) % 4
    IN  IF r = 1 \/ (r > 1 /\ pads < 4 - r)
        THEN Raise("binascii.Error")
        ELSE Return(B64Bytes(d))

\* Base64 texts a caller may pass: "", "SGk=", "SGk", "S!Gk=", "S".
B64Strings ==
    { <<>>, <<"S", "G", "k", "=">>, <<"S", "G", "k">>,
      <<"S", "!", "G", "k", "=">>, <<"S">> }

\* The UTF-8 bytes of one code point below 2048.
Utf8(cp) == IF cp < 128 THEN <<cp>> ELSE <<192 + (cp \div 64), 128 + (cp % 64)>>

RECURSIVE Utf8Bytes(_)
Utf8Bytes(content) ==
    IF content = <<>> THEN <<>>
    ELSE Utf8(Head(content)) \o Utf8Bytes(Tail(content))

\* content.encode(encoding), line 289; content is a sequence of code points.
StrEncode(content, encoding) ==
    IF encoding = "utf-8" THEN Return(Utf8Bytes(content))
    ELSE IF encoding = "ascii"
    THEN IF \E i \in DOMAIN content : content[i] >= 128
         THEN Raise("UnicodeEncodeError")
         ELSE Return(content)
    ELSE Raise("LookupError")

\* Texts a caller may pass: "", "Hi", "e" with an acute accent.
Strings == {<<>>, <<72, 105>>, <<233>>}

\* Codec names a caller may pass; the last one names no codec.
Encodings == {"utf-8", "ascii", "klingon"}

\* cls.from_bytes(data, extension) once data has been obtained: the value,
\* or the failure of obtaining data.
FromBytes(got, ext) ==
    IF got.kind = "raise" THEN got ELSE RawFile(got.val, ext)

\* from_base64 (lines 280-283).
from_base64 ==
    /\ Ready
    /\ \E b64 \in B64Strings, ext \in FileExtension :
        /\ last' = [ctor |-> "from_base64", extension |-> ext, text |-> b64,
                    result |-> FromBytes(B64Decode(b64), ext)]
        /\ UNCHANGED <<bridgeVars, held, out>>

\* from_string (lines 285-290).
from_string ==
    /\ Ready
    /\ \E content \in Strings, encoding \in Encodings, ext \in FileExtension :
        /\ last' = [ctor |-> "from_string", extension |-> ext,
                    text |-> content, encoding |-> encoding,
                    result |-> FromBytes(StrEncode(content, encoding), ext)]
        /\ UNCHANGED <<bridgeVars, held, out>>

\* stream.read() and sys.stdin.buffer.read(): the bytes, or the error of a
\* stream that cannot be read.
StreamRead(readable, data, exc) == IF readable THEN Return(data) ELSE Raise(exc)

\* from_stream (lines 292-295).
from_stream ==
    /\ Ready
    /\ \E readable \in BOOLEAN, data \in Datas, ext \in FileExtension :
        /\ last' = [ctor |-> "from_stream", extension |-> ext,
                    available |-> readable, data |-> data,
                    result |-> FromBytes(StreamRead(readable, data, "ValueError"), ext)]
        /\ UNCHANGED <<bridgeVars, held, out>>

\* from_stdin (lines 546-549).
from_stdin ==
    /\ Ready
    /\ \E readable \in BOOLEAN, data \in Datas, ext \in FileExtension :
        /\ last' = [ctor |-> "from_stdin", extension |-> ext,
                    available |-> readable, data |-> data,
                    result |-> FromBytes(StreamRead(readable, data, "OSError"), ext)]
        /\ UNCHANGED <<bridgeVars, held, out>>

\* from_database_blob (lines 542-544).
from_database_blob ==
    /\ Ready
    /\ \E data \in Datas, ext \in FileExtension :
        /\ last' = [ctor |-> "from_database_blob", extension |-> ext,
                    data |-> data, result |-> FromBytes(Return(data), ext)]
        /\ UNCHANGED <<bridgeVars, held, out>>

\* The body shared by the two upload constructors: the framework must be
\* importable, the content type is looked up whole (no split at ";"), and an
\* unmapped one raises before the upload is read.  ctSet: whether the upload
\* carries a content type at all (None otherwise).
UploadResult(installed, ctSet, ct, data) ==
    IF ~installed THEN Raise("ImportError")
    ELSE IF ~ctSet \/ GetExtensionFromContentType(ct) = None
    THEN Raise("ValueError")
    ELSE RawFile(data, GetExtensionFromContentType(ct))

\* from_litestar_upload_file (lines 297-318); content_type is a str there.
from_litestar_upload_file ==
    /\ Ready
    /\ \E installed \in BOOLEAN, ct \in ContentTypes, data \in Datas :
        /\ last' = [ctor |-> "from_litestar_upload_file", declared |-> ct,
                    data |-> data,
                    result |-> UploadResult(installed, TRUE, ct, data)]
        /\ UNCHANGED <<bridgeVars, held, out>>

\* from_fastapi_upload_file (lines 320-344).
from_fastapi_upload_file ==
    /\ Ready
    /\ \E installed \in BOOLEAN, ctSet \in BOOLEAN, ct \in ContentTypes,
       data \in Datas :
        /\ last' = [ctor |-> "from_fastapi_upload_file", declared |-> ct,
                    declares |-> ctSet, data |-> data,
                    result |-> UploadResult(installed, ctSet, ct, data)]
        /\ UNCHANGED <<bridgeVars, held, out>>

\* ------------------------------------------ files: operations on a value

\* The longest contents the model lets compress grow.
MaxLen == 10

\* Whether the caller holds a RawFile f and no constructor call is open.
Holding == held # NoFile /\ last.ctor = "none"

\* The caller binds the value a constructor returned: f = RawFile.from_...
Keep ==
    /\ last.ctor # "none"
    /\ last.result.kind = "file"
    /\ held' = last.result
    /\ last' = [ctor |-> "none"]
    /\ out' = NoOp
    /\ UNCHANGED bridgeVars

\* The caller goes on with the value compress or decompress returned.
KeepResult ==
    /\ Holding
    /\ out.op \in {"compress", "decompress"}
    /\ out.result.kind = "file"
    /\ held' = out.result
    /\ out' = NoOp
    /\ UNCHANGED <<bridgeVars, last>>

\* __del__ (lines 613-614): the value goes away, nothing else happens.
Drop ==
    /\ Holding
    /\ held' = NoFile
    /\ out' = NoOp
    /\ UNCHANGED <<bridgeVars, last>>

\* gzip.compress(data), reduced to its framing: the magic number and the
\* method byte, the payload (stored, not deflated), and the length modulo
\* 256 in place of the CRC32 and ISIZE trailer.
Gzip(c) == <<31, 139, 8>> \o c \o <<Len(c) % 256>>

\* gzip.decompress(data) on that framing: empty input is no member at all and
\* gives b""; a wrong magic number or method, or a trailer that does not
\* match, raises BadGzipFile; a member cut short raises EOFError.
Gunzip(c) ==
    IF c = <<>> THEN Return(<<>>)
    ELSE IF Len(c) < 2 \/ SubSeq(c, 1, 2) # <<31, 139>> THEN Raise("BadGzipFile")
    ELSE IF Len(c) < 4 THEN Raise("EOFError")
    ELSE IF c[3] # 8 THEN Raise("BadGzipFile")
    ELSE IF c[Len(c)] # (Len(c) - 4) % 256 THEN Raise("BadGzipFile")
    ELSE Return(SubSeq(c, 4, Len(c) - 1))

\* An operation on f gives [self, result]: what f is after the call, and
\* what the call returned or raised.

\* A compress that rebinds the fields of self.
CompressInPlace(f) ==
    [self |-> RawFile(Gzip(f.contents), f.extension), result |-> ReturnNone]

\* compress (lines 592-596).
Compress(f) ==
    [self |-> f, result |-> RawFile(Gzip(f.contents), f.extension)]

\* decompress (lines 598-602).
Decompress(f) ==
    [self |-> f,
     result |-> IF Gunzip(f.contents).kind = "raise" THEN Gunzip(f.contents)
                ELSE RawFile(Gunzip(f.contents).val, f.extension)]

\* get_size (lines 575-576).
GetSize(f) == [self |-> f, result |-> Return(Len(f.contents))]

\* compute_md5 (lines 578-581); the digest is left uninterpreted.
ComputeMd5(f) ==
    [self |-> f, result |-> Return([digest |-> "md5", of |-> f.contents])]

\* compute_sha256 (lines 583-586); the digest is left uninterpreted.
ComputeSha256(f) ==
    [self |-> f, result |-> Return([digest |-> "sha256", of |-> f.contents])]

\* mimetypes.guess_type on a name ending in the member: the standard table.
GuessType(e) ==
    CASE e = "PDF" -> "application/pdf"
      [] e = "JSON" -> "application/json"
      [] e = "PNG" -> "image/png"
      [] e \in {"JPEG", "JPG"} -> "image/jpeg"
      [] e = "HTML" -> "text/html"
      [] e = "TXT" -> "text/plain"
      [] e = "MD" -> "text/markdown"
      [] OTHER -> None

\* get_mime_type (lines 588-590).
GetMimeType(f) ==
    [self |-> f,
     result |-> IF GuessType(f.extension) = None
                THEN Return("application/octet-stream")
                ELSE Return(GuessType(f.extension))]

\* save_to_file (lines 571-573): open() raises when the path cannot be
\* written, otherwise the contents go to the file.
SaveToFile(f, writable) ==
    [self |-> f,
     result |-> IF writable THEN ReturnNone ELSE Raise("OSError"),
     written |-> IF writable THEN f.contents ELSE <<>>]

\* read_async (lines 604-605), awaited.
ReadAsync(f) == [self |-> f, result |-> Return(f.contents)]

\* __enter__ (lines 607-608): the with block is handed self.
Enter(f) == [self |-> f, result |-> Return(f)]

\* __exit__ (lines 610-611): returns None, so an exception of the block
\* propagates.
Exit(f, exc) == [self |-> f, result |-> ReturnNone, propagates |-> exc]

\* A call of an operation on the held value.
Called(name, r) ==
    /\ held' = r.self
    /\ out' = [op |-> name, before |-> held] @@ [k \in DOMAIN r \ {"self"} |-> r[k]]
    /\ UNCHANGED <<bridgeVars, last>>

compress ==
    /\ Holding
    /\ Len(held.contents) + 4 <= MaxLen
    /\ Called("compress", Compress(held))

decompress == Holding /\ Called("decompress", Decompress(held))

get_size == Holding /\ Called("get_size", GetSize(held))

compute_md5 == Holding /\ Called("compute_md5", ComputeMd5(held))

compute_sha256 == Holding /\ Called("compute_sha256", ComputeSha256(held))

get_mime_type == Holding /\ Called("get_mime_type", GetMimeType(held))

save_to_file ==
    /\ Holding
    /\ \E writable \in BOOLEAN : Called("save_to_file", SaveToFile(held, writable))

read_async == Holding /\ Called("read_async", ReadAsync(held))

\* with f as g: ...
enter == Holding /\ Called("__enter__", Enter(held))

exit ==
    /\ Holding
    /\ out.op = "__enter__"
    /\ \E exc \in {None, "KeyError"} : Called("__exit__", Exit(held, exc))

\* The caller is done with the outcome of the last call.
Forget ==
    /\ last.ctor # "none"
    /\ last' = [ctor |-> "none"]
    /\ UNCHANGED <<bridgeVars, held, out>>

NextFiles ==
    \/ from_file_path
    \/ from_bytes
    \/ from_url
    \/ from_s3
    \/ from_azure_blob
    \/ from_gcs
    \/ from_zip
    \/ from_ftp
    \/ from_base64
    \/ from_string
    \/ from_stream
    \/ from_stdin
    \/ from_database_blob
    \/ from_litestar_upload_file
    \/ from_fastapi_upload_file
    \/ Forget
    \/ Keep
    \/ KeepResult
    \/ Drop
    \/ compress
    \/ decompress
    \/ get_size
    \/ compute_md5
    \/ compute_sha256
    \/ get_mime_type
    \/ save_to_file
    \/ read_async
    \/ enter
    \/ exit

FilesSpec == Init /\ [][NextFiles]_vars

\* The two components together.
Next == NextBridge \/ NextFiles

Spec == Init /\ [][Next]_vars

\* -------------------------------------------------------- files: claims

\* The content types the map knows.
MappedTypes ==
    { <<"application/pdf">>, <<"application/json">>, <<"image/png">>,
      <<"image/jpeg">>, <<"image/jpg">>, <<"text/html">>, <<"text/plain">> }

ObjectStores == {"from_s3", "from_azure_blob", "from_gcs"}

\* The tag the path's suffix stands for (whatever its case), if any.
SuffixTag(p) == ExtensionByName(SuffixOf(p))

\* C9: with no explicit tag, a response whose declared media type is not in
\* the map makes from_url return an HTML-tagged value; an object store that
\* is reached and reports a content type not in the map, for a key whose
\* suffix names no tag, makes from_s3, from_azure_blob and from_gcs raise
\* ValueError (no value).
C9_UnmappedContentType ==
    /\ (/\ last.ctor = "from_url"
        /\ last.extension = None
        /\ last.available
        /\ SplitFirst(last.declared) \notin MappedTypes)
            => last.result = RawFile(last.data, "HTML")
    /\ (/\ last.ctor \in ObjectStores
        /\ last.extension = None
        /\ last.sdk /\ last.available
        /\ last.declared \notin MappedTypes
        /\ SuffixTag(last.path) = None)
            => last.result = Raise("ValueError")

\* from_url got a response declaring application/xml and returned an
\* HTML-tagged value.
C9_Witness ==
    /\ last.ctor = "from_url"
    /\ last.extension = None
    /\ last.declared = <<"application/xml">>
    /\ last.result.kind = "file"
    /\ last.result.extension = "HTML"

\* The call's source could be read.
SourceAvailable ==
    CASE last.ctor = "from_file_path" -> last.exists /\ last.isFile
      [] last.ctor \in ObjectStores -> last.sdk /\ last.available
      [] OTHER -> last.available

\* The source implies a tag, and not the one the caller gave.
ImpliedTagDiffers ==
    CASE last.ctor = "from_url" ->
            SplitFirst(last.declared) \in MappedTypes
            /\ GetExtensionFromContentType(SplitFirst(last.declared)) # last.extension
      [] OTHER -> SuffixTag(last.path) \notin {None, last.extension}

\* The constructors that infer a tag from their source.
Inferring ==
    {"from_file_path", "from_url", "from_zip", "from_ftp"} \cup ObjectStores

\* C10 (as claimed): whichever inferring constructor is called with an
\* explicit tag against a source that implies another, local paths
\* included, the value returned carries the explicit tag.
C10_ExplicitOverrideWins ==
    (/\ last.ctor \in Inferring
     /\ last.extension # None
     /\ SourceAvailable
     /\ ImpliedTagDiffers)
        => (last.result.kind = "file" /\ last.result.extension = last.extension)

\* C10 (amended): the explicit tag wins in every constructor that takes one
\* (from_url, from_s3, from_azure_blob, from_gcs, from_zip, from_ftp);
\* from_file_path takes none: a call passing one is rejected and returns no
\* value, and a call without one tags the value by the path's suffix.
C10_ExplicitWinsWhereAccepted ==
    /\ (/\ last.ctor \in Inferring \ {"from_file_path"}
        /\ last.extension # None
        /\ SourceAvailable
        /\ ImpliedTagDiffers)
            => last.result = RawFile(last.data, last.extension)
    /\ (last.ctor = "from_file_path" /\ last.extension # None)
            => last.result = Raise("TypeError")
    /\ (/\ last.ctor = "from_file_path"
        /\ last.extension = None
        /\ SourceAvailable
        /\ \E e \in FileExtension : MemberValue(e) = SuffixOf(last.path))
            => /\ last.result.kind = "file"
               /\ MemberValue(last.result.extension) = SuffixOf(last.path)

\* from_url was given PDF against a response declaring text/html and
\* returned a PDF-tagged value.
C10_Witness ==
    /\ last.ctor = "from_url"
    /\ last.extension = "PDF"
    /\ last.declared = <<"text/html">>
    /\ last.result.kind = "file"
    /\ last.result.extension = "PDF"

\* C12 (as claimed): from_url called with a malformed URL returns no value:
\* it fails in the validation step, before any GET is sent.
C12_MalformedUrlRejected ==
    (last.ctor = "from_url" /\ ~last.urlValid) =>
        /\ last.result.kind = "raise"
        /\ last.failedIn = "validators.url"
        /\ ~last.getIssued

\* Every RawFile value there is: the one a constructor just returned, the one
\* the caller holds, the one compress or decompress just returned.
Existing ==
    (IF last.ctor # "none" /\ last.result.kind = "file" THEN {last.result} ELSE {})
    \cup (IF held # NoFile THEN {held} ELSE {})
    \cup (IF out.op \in {"compress", "decompress"} /\ out.result.kind = "file"
          THEN {out.result} ELSE {})

IsBytes(c) == \A i \in DOMAIN c : c[i] \in 0..255

\* C11: after any sequence of constructor calls, compress and decompress,
\* every RawFile there is carries a member of FileExtension as its tag, and a
\* constructor call gives either such a value or a failure and no value.
C11_TagInClosedSet ==
    /\ \A f \in Existing : f.extension \in FileExtension /\ IsBytes(f.contents)
    /\ last.ctor # "none" => last.result.kind \in {"file", "raise"}

\* A value obtained from a constructor, compressed, and decompressed again.
C11_Witness ==
    /\ Holding
    /\ held.contents # <<>>
    /\ out.op = "decompress"
    /\ out.result.kind = "file"
    /\ out.result.extension = held.extension

\* C13: whatever public operation is called on a RawFile f, and whether it
\* returns or raises, f has the contents and the tag it had before the call;
\* what compress and decompress return is a value of its own with f's tag.
C13_OperationsLeaveFileUnchanged ==
    (Holding /\ out.op # "none") =>
        /\ held.contents = out.before.contents
        /\ held.extension = out.before.extension
        /\ out.op = "compress" => out.result.kind = "file"
        /\ out.op = "decompress" => out.result.kind \in {"file", "raise"}
        /\ (out.op \in {"compress", "decompress"} /\ out.result.kind = "file") =>
                out.result.extension = out.before.extension

\* A decompress that failed on contents that are no gzip data.
C13_Witness ==
    /\ Holding
    /\ out.op = "decompress"
    /\ out.result.kind = "raise"
    /\ held = out.before
    /\ held.contents # <<>>

=============================================================================
